---- MODULE Spec2Model ----
(***************************************************************************)
(* Model of the claw clipboard-history client: the keybind engine          *)
(* (src/lib/api/keybinds.ts), the history view's cursor and key dispatcher *)
(* (src/lib/components/History.svelte) and the asynchronous clipboard API  *)
(* (lib/api/clipboard.ts) talking to the external clipboard service.       *)
(*                                                                         *)
(* JavaScript strings are modelled as sequences of one-character strings,  *)
(* so that trim, toLowerCase, split and join are computed as the code      *)
(* computes them.                                                          *)
(***************************************************************************)
EXTENDS Integers, Sequences, FiniteSets, Bags, TLC

VARIABLES
    history,        \* the history store: the cached list, as entry ids
    selectedIndex,  \* History.svelte's cursor
    keybinds,       \* the keybinds store
    message,        \* the message store (the text before any error detail)
    tasks,          \* bag of service calls awaiting their answer
    lastIntent,     \* branch taken by the most recent handleKeyDown
    mounted,        \* History.svelte's onMount has run
    layoutMounted,  \* +layout.svelte's onMount has run
    listening,      \* the config-reloaded listener is registered
    replies,        \* the service's answers to the get_clipboard_history
                    \* requests in flight, oldest request first
    newest,         \* the list of the newest request answered and applied
    lastLoad        \* whether the load applied last was already superseded

vars == <<history, selectedIndex, keybinds, message, tasks, lastIntent,
          mounted, layoutMounted, listening, replies, newest, lastLoad>>

\* the service's side of the refreshes, followed where their order matters
env == <<replies, newest, lastLoad>>

\* ------------------------------------------------------------------ bounds
NumIds == 2
MaxTasks == 1

Ids == 1..NumIds

\* ------------------------------------------------- JavaScript string model
UpperChars == <<"A","B","C","D","E","F","G","H","I","J","K","L","M",
                "N","O","P","Q","R","S","T","U","V","W","X","Y","Z">>
LowerChars == <<"a","b","c","d","e","f","g","h","i","j","k","l","m",
                "n","o","p","q","r","s","t","u","v","w","x","y","z">>

Max(a, b) == IF a >= b THEN a ELSE b
Min(a, b) == IF a <= b THEN a ELSE b

LowerChar(c) ==
    IF \E i \in 1..26 : UpperChars[i] = c
    THEN LowerChars[CHOOSE i \in 1..26 : UpperChars[i] = c]
    ELSE c

UpperChar(c) ==
    IF \E i \in 1..26 : LowerChars[i] = c
    THEN UpperChars[CHOOSE i \in 1..26 : LowerChars[i] = c]
    ELSE c

toLowerCase(s) == [i \in 1..Len(s) |-> LowerChar(s[i])]
toUpperCase(s) == [i \in 1..Len(s) |-> UpperChar(s[i])]

IsSpace(c) == c \in {" ", "\t"}

RECURSIVE trimStart(_)
trimStart(s) ==
    IF s = <<>> THEN s
    ELSE IF IsSpace(Head(s)) THEN trimStart(Tail(s)) ELSE s

RECURSIVE trimEnd(_)
trimEnd(s) ==
    IF s = <<>> THEN s
    ELSE IF IsSpace(s[Len(s)]) THEN trimEnd(SubSeq(s, 1, Len(s) - 1)) ELSE s

trim(s) == trimEnd(trimStart(s))

includes(s, c) == \E i \in 1..Len(s) : s[i] = c

\* s.split(c): the pieces between the occurrences of c (never empty as a list)
RECURSIVE split(_, _)
split(s, c) ==
    IF ~includes(s, c) THEN <<s>>
    ELSE LET i == CHOOSE j \in 1..Len(s) :
                      s[j] = c /\ \A m \in 1..(j - 1) : s[m] # c
         IN  <<SubSeq(s, 1, i - 1)>> \o split(SubSeq(s, i + 1, Len(s)), c)

\* parts.join(c)
RECURSIVE join(_, _)
join(parts, c) ==
    IF parts = <<>> THEN <<>>
    ELSE IF Len(parts) = 1 THEN parts[1]
    ELSE parts[1] \o <<c>> \o join(Tail(parts), c)

\* m.charAt(0).toUpperCase() + m.slice(1).toLowerCase()
Capitalize(m) ==
    IF m = <<>> THEN <<>>
    ELSE <<UpperChar(m[1])>> \o toLowerCase(Tail(m))

\* the value of a configuration field that is absent from the object
Undefined == <<"undefined">>

\* string literals of the source
sEmpty     == <<>>
sArrowUp   == <<"A","r","r","o","w","U","p">>
sArrowDown == <<"A","r","r","o","w","D","o","w","n">>
sArrowLeft == <<"A","r","r","o","w","L","e","f","t">>
sArrowRight == <<"A","r","r","o","w","R","i","g","h","t">>
sEnter     == <<"E","n","t","e","r">>
sDelete    == <<"D","e","l","e","t","e">>
sX         == <<"x">>

\* ------------------------------------------------------------ keybinds.ts
\* the writable store's initial value
DefaultKeybinds ==
    [historyUp |-> sArrowUp, historyDown |-> sArrowDown, useEntry |-> sEnter,
     removeEntry |-> sX, deleteAll |-> sEmpty]

normalizeKey(key) ==
    IF key = Undefined \/ key = <<>> \/ trim(key) = <<>> THEN <<>>
    ELSE LET k == toLowerCase(trim(key)) IN
         CASE k = <<"u","p">> -> sArrowUp
           [] k = <<"d","o","w","n">> -> sArrowDown
           [] k = <<"r","e","t","u","r","n">> -> sEnter
           [] k = <<"e","n","t","e","r">> -> sEnter
           [] k = <<"d","e","l","e","t","e">> -> sDelete
           [] OTHER ->
                IF includes(key, "+")
                THEN LET parts == [i \in 1..Len(split(key, "+")) |->
                                       trim(split(key, "+")[i])]
                         lastPart == parts[Len(parts)]
                         modifiers == [i \in 1..(Len(parts) - 1) |->
                                           Capitalize(parts[i])]
                     IN  join(modifiers \o <<toLowerCase(lastPart)>>, "+")
                ELSE toLowerCase(trim(key))

\* a || b on strings: '' and undefined are falsy
OrDefault(a, b) == IF a = Undefined \/ a = <<>> THEN b ELSE a

\* a build that gives up on the whole configuration, keeping the defaults,
\* when one field is a word it does not recognise
KeybindsFromConfig_coupled(config) ==
    LET bad(raw) == /\ raw # Undefined
                    /\ ~includes(raw, "+")
                    /\ Len(trim(raw)) > 1
                    /\ normalizeKey(raw) = toLowerCase(trim(raw))
    IN  IF \E fld \in DOMAIN config : bad(config[fld])
        THEN DefaultKeybinds
        ELSE [historyUp   |-> normalizeKey(OrDefault(config.up, sArrowUp)),
              historyDown |-> normalizeKey(OrDefault(config.down, sArrowDown)),
              useEntry    |-> normalizeKey(OrDefault(config.select, sEnter)),
              removeEntry |-> normalizeKey(OrDefault(config.delete, sX)),
              deleteAll   |-> normalizeKey(OrDefault(config.delete_all,
                                                     sEmpty))]

\* the value setKeybindsFromConfig stores
KeybindsFromConfig(config) ==
    [historyUp   |-> normalizeKey(OrDefault(config.up, sArrowUp)),
     historyDown |-> normalizeKey(OrDefault(config.down, sArrowDown)),
     useEntry    |-> normalizeKey(OrDefault(config.select, sEnter)),
     removeEntry |-> normalizeKey(OrDefault(config.delete, sX)),
     deleteAll   |-> normalizeKey(OrDefault(config.delete_all, sEmpty))]

ArrowNamesLower ==
    {toLowerCase(sArrowUp), toLowerCase(sArrowDown),
     toLowerCase(sArrowLeft), toLowerCase(sArrowRight)}

\* the event key after the "Handle special keys" normalisation
EventKey(event) ==
    IF toLowerCase(event.key) \in ArrowNamesLower THEN event.key
    ELSE IF event.key = sEnter THEN sEnter
    ELSE IF event.key = sDelete THEN sDelete
    ELSE toLowerCase(event.key)

\* matching that only asks for the required modifiers to be held
matchKeybind_subset(event, keybind) ==
    IF keybind = Undefined \/ keybind = <<>> \/ trim(keybind) = <<>> THEN FALSE
    ELSE LET all == [i \in 1..Len(split(keybind, "+")) |->
                         trim(split(keybind, "+")[i])]
             baseKey == toLowerCase(trim(all[Len(all)]))
             parts == SubSeq(all, 1, Len(all) - 1)
             shiftRequired == \E i \in 1..Len(parts) :
                                 toLowerCase(parts[i]) = <<"s","h","i","f","t">>
             ctrlRequired == \E i \in 1..Len(parts) :
                                 toLowerCase(parts[i]) = <<"c","t","r","l">>
             altRequired == \E i \in 1..Len(parts) :
                                 toLowerCase(parts[i]) = <<"a","l","t">>
             eventKey == EventKey(event)
             keysMatch == IF baseKey \in ArrowNamesLower
                          THEN toLowerCase(eventKey) = baseKey
                          ELSE eventKey = baseKey
             modifiersMatch == /\ shiftRequired => event.shiftKey
                               /\ ctrlRequired => event.ctrlKey
                               /\ altRequired => event.altKey
         IN  keysMatch /\ modifiersMatch

\* matching that rejects a binding with a modifier token it does not know
matchKeybind_strictMods(event, keybind) ==
    IF keybind = Undefined \/ keybind = <<>> \/ trim(keybind) = <<>> THEN FALSE
    ELSE LET all == [i \in 1..Len(split(keybind, "+")) |->
                         trim(split(keybind, "+")[i])]
             baseKey == toLowerCase(trim(all[Len(all)]))
             parts == SubSeq(all, 1, Len(all) - 1)
             shiftRequired == \E i \in 1..Len(parts) :
                                 toLowerCase(parts[i]) = <<"s","h","i","f","t">>
             ctrlRequired == \E i \in 1..Len(parts) :
                                 toLowerCase(parts[i]) = <<"c","t","r","l">>
             altRequired == \E i \in 1..Len(parts) :
                                 toLowerCase(parts[i]) = <<"a","l","t">>
             eventKey == EventKey(event)
             keysMatch == IF baseKey \in ArrowNamesLower
                          THEN toLowerCase(eventKey) = baseKey
                          ELSE eventKey = baseKey
             modifiersMatch == /\ event.shiftKey = shiftRequired
                               /\ event.ctrlKey = ctrlRequired
                               /\ event.altKey = altRequired
             known == \A i \in 1..Len(parts) :
                         toLowerCase(parts[i]) \in
                             {<<"s","h","i","f","t">>, <<"c","t","r","l">>,
                              <<"a","l","t">>}
         IN  keysMatch /\ modifiersMatch /\ known

matchKeybind(event, keybind) ==
    IF keybind = Undefined \/ keybind = <<>> \/ trim(keybind) = <<>> THEN FALSE
    ELSE LET all == [i \in 1..Len(split(keybind, "+")) |->
                         trim(split(keybind, "+")[i])]
             baseKey == toLowerCase(trim(all[Len(all)]))
             parts == SubSeq(all, 1, Len(all) - 1)
             shiftRequired == \E i \in 1..Len(parts) :
                                 toLowerCase(parts[i]) = <<"s","h","i","f","t">>
             ctrlRequired == \E i \in 1..Len(parts) :
                                 toLowerCase(parts[i]) = <<"c","t","r","l">>
             altRequired == \E i \in 1..Len(parts) :
                                 toLowerCase(parts[i]) = <<"a","l","t">>
             eventKey == EventKey(event)
             keysMatch == IF baseKey \in ArrowNamesLower
                          THEN toLowerCase(eventKey) = baseKey
                          ELSE eventKey = baseKey
             modifiersMatch == /\ event.shiftKey = shiftRequired
                               /\ event.ctrlKey = ctrlRequired
                               /\ event.altKey = altRequired
         IN  keysMatch /\ modifiersMatch

\* ------------------------------------------------------------- inputs
\* configuration objects get_claw_config can return (the keybinds section)
CfgReadme ==
    [up |-> <<"k">>, down |-> <<"j">>, select |-> <<"R","e","t","u","r","n">>,
     delete |-> <<"x">>, delete_all |-> <<"S","h","i","f","t","+","x">>]
CfgAbsent ==
    [up |-> Undefined, down |-> Undefined, select |-> Undefined,
     delete |-> Undefined, delete_all |-> Undefined]
CfgTieSelectAll ==
    [up |-> <<"u","p">>, down |-> <<"d","o","w","n">>, select |-> <<"y">>,
     delete |-> <<"x">>, delete_all |-> <<"y">>]
CfgTieUpSelect ==
    [up |-> <<"y">>, down |-> <<"d","o","w","n">>, select |-> <<"y">>,
     delete |-> <<"D","e","l","e","t","e">>, delete_all |-> <<>>]
CfgTieAll ==
    [up |-> <<"k">>, down |-> <<"k">>, select |-> <<"y">>,
     delete |-> <<"y">>, delete_all |-> <<"y">>]
CfgBlank ==
    [up |-> <<" ", " ">>, down |-> <<>>, select |-> <<" ","e","n","t","e","r">>,
     delete |-> <<"X">>, delete_all |-> <<" ">>]
CfgEnter ==
    [up |-> <<"U","p">>, down |-> <<"D","O","W","N">>,
     select |-> <<"E","n","t","e","r">>, delete |-> <<"d","e","l","e","t","e">>,
     delete_all |-> <<"S","h","i","f","t","+","x">>]

CfgAliases ==
    [up |-> <<" ","U","P"," ">>, down |-> <<"l","e","f","t">>,
     select |-> <<"R","E","T","U","R","N">>,
     delete |-> <<"R","i","g","h","t">>,
     delete_all |-> <<"D","e","l","e","t","e"," ">>]
CfgPlus ==
    [up |-> <<"S","h","i","f","t","+">>, down |-> <<"+">>,
     select |-> <<"c","t","r","l","+","E","n","t","e","r">>,
     delete |-> <<"s","h","i","f","t"," ","+"," ","X">>,
     delete_all |-> <<"C","t","r","l","+","S","h","i","f","t","+","x">>]

\* the configurations of the whole-client specification, and the larger set
\* of the key-engine specification
CfgCombo ==
    [up |-> <<"S","h","i","f","t","+","A","r","r","o","w","U","p">>,
     down |-> <<"j">>,
     select |-> <<"C","t","r","l","+","E","n","t","e","r">>,
     delete |-> <<"S","h","i","f","t","+","D","e","l","e","t","e">>,
     delete_all |-> <<"x">>]
CfgOneBad == [CfgCombo EXCEPT !.down = <<"P","a","g","e","U","p">>]
CfgMods ==
    [up |-> <<"F","o","o","+","x">>, down |-> <<"x">>,
     select |-> <<"s","h","i","f","t","+","x">>,
     delete |-> <<"S","H","I","F","T","+","x">>,
     delete_all |-> <<"S","h","i","f","t","+","x">>]

Configs == {CfgReadme, CfgAbsent, CfgTieSelectAll}
KeyConfigs == Configs \cup {CfgTieUpSelect, CfgTieAll, CfgBlank, CfgEnter,
                            CfgAliases, CfgPlus, CfgCombo, CfgOneBad,
                            CfgMods}

\* keyboard events: the key the browser reports and the modifier flags
Event(key, shift, ctrl, alt) ==
    [key |-> key, shiftKey |-> shift, ctrlKey |-> ctrl, altKey |-> alt]
Plain(key) == Event(key, FALSE, FALSE, FALSE)

EventKeys == {sArrowUp, sArrowDown, sArrowLeft, sArrowRight, sEnter,
              sDelete, <<"x">>, <<"X">>, <<"y">>, <<"k">>, <<"j">>}
KeyEvents == [key : EventKeys, shiftKey : BOOLEAN, ctrlKey : BOOLEAN,
              altKey : BOOLEAN]
RefreshEvents == {Plain(sArrowDown), Plain(<<"x">>)}
Events == {Plain(sArrowUp), Plain(sArrowDown), Plain(sEnter), Plain(<<"x">>),
           Plain(<<"y">>), Plain(<<"k">>), Plain(<<"j">>),
           Event(<<"X">>, TRUE, FALSE, FALSE)}

\* every binding string the store can hold, and the store values themselves
StoreValues == {DefaultKeybinds} \cup {KeybindsFromConfig(c) : c \in KeyConfigs}
BindingStrings ==
    UNION {{kb.historyUp, kb.historyDown, kb.useEntry, kb.removeEntry,
            kb.deleteAll} : kb \in StoreValues}

\* matchKeybind and setKeybindsFromConfig tabulated over the inputs above
\* (enumerated once; the entries are the operators' own values)
MatchSet ==
    [k \in BindingStrings |->
        {e : e \in {x \in KeyEvents : matchKeybind(x, k)}}] @@ <<>>
Matches(event, keybind) == event \in MatchSet[keybind]
ConfigStore == [c \in KeyConfigs |-> KeybindsFromConfig(c)] @@ <<>>

\* ------------------------------------------------------ service and tasks
\* a list the service can answer get_clipboard_history with: the entries it
\* holds at that moment, ids unique, in the service's own order
RECURSIVE SortedSeq(_)
SortedSeq(S) ==
    IF S = {} THEN <<>>
    ELSE LET m == CHOOSE x \in S : \A y \in S : x <= y
         IN  <<m>> \o SortedSeq(S \ {m})

Snapshots == {SortedSeq(S) : S \in SUBSET Ids}

\* $history[i]; 0 stands for undefined (index outside the array)
NoEntry == 0

\* indexing that clamps an index past the end to the last entry
EntryAt_clamp(h, i) ==
    IF (i + 1) \in 1..Len(h) THEN h[i + 1]
    ELSE IF i >= Len(h) /\ h # <<>> THEN h[Len(h)] ELSE NoEntry

\* indexing that always yields the first entry
EntryAt_head(h, i) == IF h # <<>> THEN h[1] ELSE NoEntry
EntryAt(h, i) == IF (i + 1) \in 1..Len(h) THEN h[i + 1] ELSE NoEntry

\* an asynchronous call awaiting the service: op is the invoke()d command,
\* id the entry id it carries (0: none), by the caller where it matters
Task(op, id, by) == [op |-> op, id |-> id, by |-> by]

NumTasks == BagCardinality(tasks)
AddTask(b, t) == b (+) SetToBag({t})
DelTask(b, t) == b (-) SetToBag({t})
Pending == BagToSet(tasks)

Intents == {"none", "moveUp", "moveDown", "activate", "remove", "removeAll"}

\* ------------------------------------------------------------------- Init
Init ==
    /\ history = <<>>
    /\ selectedIndex = -1
    /\ keybinds = DefaultKeybinds
    /\ message = ""
    /\ tasks = EmptyBag
    /\ lastIntent = "none"
    /\ mounted = FALSE
    /\ layoutMounted = FALSE
    /\ listening = FALSE
    /\ replies = <<>>
    /\ newest = <<>>
    /\ lastLoad = "none"

\* ------------------------------------------------ History.svelte: onMount
\* both onMount callbacks run in the one synchronous flush that mounts the
\* page, the child component's first; nothing else runs in between
Ready == mounted /\ layoutMounted

HistoryOnMount ==
    /\ ~mounted
    /\ mounted' = TRUE
    /\ tasks' = AddTask(AddTask(tasks, Task("getConfig", 0, "-")),
                        Task("getHistory", 0, "-"))
    /\ selectedIndex' = IF Len(history) > 0 /\ selectedIndex = -1
                        THEN 0 ELSE selectedIndex
    /\ UNCHANGED <<message, history, keybinds, lastIntent, layoutMounted,
                   listening>>

\* the 'history-updated' listener
HistoryUpdated ==
    /\ Ready
    /\ NumTasks < MaxTasks
    /\ tasks' = AddTask(tasks, Task("getHistory", 0, "-"))
    /\ UNCHANGED <<message, history, selectedIndex, keybinds, lastIntent,
                   mounted,
                   layoutMounted, listening>>

\* Statusbar.svelte: the refresh button
RefreshClick ==
    /\ Ready
    /\ NumTasks < MaxTasks
    /\ tasks' = AddTask(tasks, Task("getHistory", 0, "-"))
    /\ UNCHANGED <<message, history, selectedIndex, keybinds, lastIntent,
                   mounted,
                   layoutMounted, listening>>

\* a click on row i of the rendered list
Click(i) ==
    /\ Ready
    /\ i \in 0..(Len(history) - 1)
    /\ selectedIndex' = i
    /\ UNCHANGED <<message, history, keybinds, tasks, lastIntent, mounted,
                   layoutMounted, listening>>

\* ------------------------------------------ History.svelte: handleKeyDown
\* the chain with a plain else as its last branch
Branch_elseRemoveAll(event, kb, sel) ==
    IF Matches(event, kb.historyUp) THEN "moveUp"
    ELSE IF Matches(event, kb.historyDown) THEN "moveDown"
    ELSE IF Matches(event, kb.useEntry) /\ sel >= 0 THEN "activate"
    ELSE IF Matches(event, kb.removeEntry) /\ sel >= 0 THEN "remove"
    ELSE "removeAll"

\* a chain whose final else moves the cursor up
Branch_elseMoveUp(event, kb, sel) ==
    IF Matches(event, kb.historyUp) THEN "moveUp"
    ELSE IF Matches(event, kb.historyDown) THEN "moveDown"
    ELSE IF Matches(event, kb.useEntry) /\ sel >= 0 THEN "activate"
    ELSE IF Matches(event, kb.removeEntry) /\ sel >= 0 THEN "remove"
    ELSE IF Matches(event, kb.deleteAll) THEN "removeAll"
    ELSE "moveUp"

\* the branch of the if / else-if chain the event takes
Branch(event, kb, sel) ==
    IF Matches(event, kb.historyUp) THEN "moveUp"
    ELSE IF Matches(event, kb.historyDown) THEN "moveDown"
    ELSE IF Matches(event, kb.useEntry) /\ sel >= 0 THEN "activate"
    ELSE IF Matches(event, kb.removeEntry) /\ sel >= 0 THEN "remove"
    ELSE IF Matches(event, kb.deleteAll) THEN "removeAll"
    ELSE "none"

\* moveUp without the clamp at the top
moveUpIndex_noClamp(sel) == sel - 1

\* remove that leaves the cursor on its row
removeIndex_keep(sel, len) == sel

\* event.preventDefault() is called in every branch and nowhere else
Consumed(b) == b # "none"

moveUpIndex(sel) == Max(sel - 1, 0)
moveDownIndex(sel, len) == Min(sel + 1, len - 1)
removeIndex(sel, len) == Min(sel, len - 2)
removeAllIndex(sel) == -1

handleKeyDown(event) ==
    LET b == Branch(event, keybinds, selectedIndex)
        entry == EntryAt(history, selectedIndex)
    IN
    /\ Ready
    /\ lastIntent' = b
    /\ CASE b = "moveUp" ->
              /\ selectedIndex' = moveUpIndex(selectedIndex)
              /\ UNCHANGED <<tasks, message>>
         [] b = "moveDown" ->
              /\ selectedIndex' = moveDownIndex(selectedIndex, Len(history))
              /\ UNCHANGED <<tasks, message>>
         [] b = "activate" ->
              \* useFromHistory(entry): reading entry.content of undefined
              \* throws inside the try, before any request; else the content
              \* is fetched first unless the entry already carries it
              /\ IF entry = NoEntry
                 THEN /\ message' = "Failed to use from history"
                      /\ UNCHANGED tasks
                 ELSE /\ NumTasks < MaxTasks
                      /\ \E loaded \in BOOLEAN :
                           tasks' = AddTask(tasks,
                               Task(IF loaded THEN "setFromHistory"
                                    ELSE "getContent", entry, "-"))
                      /\ UNCHANGED message
              /\ UNCHANGED selectedIndex
         [] b = "remove" ->
              \* removeFromHistory(entry): entry.id of undefined throws
              /\ IF entry = NoEntry
                 THEN /\ message' = "Failed to remove entry"
                      /\ UNCHANGED tasks
                 ELSE /\ NumTasks < MaxTasks
                      /\ tasks' = AddTask(tasks, Task("removeEntry", entry, "-"))
                      /\ UNCHANGED message
              /\ selectedIndex' = removeIndex(selectedIndex, Len(history))
         [] b = "removeAll" ->
              /\ NumTasks < MaxTasks
              /\ tasks' = AddTask(tasks, Task("clearHistory", 0, "-"))
              /\ selectedIndex' = removeAllIndex(selectedIndex)
              /\ UNCHANGED message
         [] OTHER ->
              UNCHANGED <<selectedIndex, tasks, message>>
    /\ UNCHANGED <<history, keybinds, mounted, layoutMounted, listening>>

\* ------------------------------------------------ clipboard.ts: loadHistory
\* a load that drops an answer older than the one already applied
LoadHistoryOk_sequenced(entries) ==
    \E t \in Pending :
        /\ Ready
        /\ t.op = "getHistory"
        /\ history' = (IF \E k \in 1..Len(replies) :
                              replies[k].snap = entries /\ replies[k].stale
                       THEN history ELSE entries)
        /\ tasks' = DelTask(tasks, t)
        /\ UNCHANGED <<message, selectedIndex, keybinds, lastIntent, mounted,
                       layoutMounted, listening>>

\* get_clipboard_history answered with entries: history.set(entries)
LoadHistoryOk(entries) ==
    \E t \in Pending :
        /\ Ready
        /\ t.op = "getHistory"
        /\ history' = entries
        /\ tasks' = DelTask(tasks, t)
        /\ UNCHANGED <<message, selectedIndex, keybinds, lastIntent, mounted,
                       layoutMounted, listening>>

\* a rejected load that empties the cached list
LoadHistoryFail_clearsList ==
    \E t \in Pending :
        /\ Ready
        /\ t.op = "getHistory"
        /\ tasks' = DelTask(tasks, t)
        /\ history' = <<>>
        /\ message' = "Failed to load history"
        /\ UNCHANGED <<selectedIndex, keybinds, lastIntent, mounted,
                       layoutMounted, listening>>

\* get_clipboard_history rejected: only the message store changes
LoadHistoryFail ==
    \E t \in Pending :
        /\ Ready
        /\ t.op = "getHistory"
        /\ tasks' = DelTask(tasks, t)
        /\ message' = "Failed to load history"
        /\ UNCHANGED <<history, selectedIndex, keybinds, lastIntent, mounted,
                       layoutMounted, listening>>

\* --------------------------------------------- clipboard.ts: useFromHistory
GetContentOk ==
    \E t \in Pending :
        /\ Ready
        /\ t.op = "getContent"
        /\ tasks' = AddTask(DelTask(tasks, t),
                            Task("setFromHistory", t.id, "-"))
        /\ UNCHANGED <<message, history, selectedIndex, keybinds, lastIntent,
                       mounted,
                       layoutMounted, listening>>

\* set_clipboard_from_history resolved: await loadHistory()
SetFromHistoryOk ==
    \E t \in Pending :
        /\ Ready
        /\ t.op = "setFromHistory"
        /\ tasks' = AddTask(DelTask(tasks, t), Task("getHistory", 0, "-"))
        /\ message' = "Set clipboard to"
        /\ UNCHANGED <<history, selectedIndex, keybinds, lastIntent, mounted,
                       layoutMounted, listening>>

UseFromHistoryFail ==
    \E t \in Pending :
        /\ Ready
        /\ t.op \in {"getContent", "setFromHistory"}
        /\ tasks' = DelTask(tasks, t)
        /\ message' = "Failed to use from history"
        /\ UNCHANGED <<history, selectedIndex, keybinds, lastIntent, mounted,
                       layoutMounted, listening>>

\* ------------------------------------------ clipboard.ts: removeFromHistory
\* remove_clipboard_entry resolved: await loadHistory()
RemoveEntryOk ==
    \E t \in Pending :
        /\ Ready
        /\ t.op = "removeEntry"
        /\ tasks' = AddTask(DelTask(tasks, t), Task("getHistory", 0, "-"))
        /\ message' = "Entry removed from history"
        /\ UNCHANGED <<history, selectedIndex, keybinds, lastIntent, mounted,
                       layoutMounted, listening>>

RemoveEntryFail ==
    \E t \in Pending :
        /\ Ready
        /\ t.op = "removeEntry"
        /\ tasks' = DelTask(tasks, t)
        /\ message' = "Failed to remove entry"
        /\ UNCHANGED <<history, selectedIndex, keybinds, lastIntent, mounted,
                       layoutMounted, listening>>

\* -------------------------------------------- clipboard.ts: clearAllHistory
\* clear_clipboard_history resolved: history.set([])
ClearHistoryOk ==
    \E t \in Pending :
        /\ Ready
        /\ t.op = "clearHistory"
        /\ history' = <<>>
        /\ tasks' = DelTask(tasks, t)
        /\ message' = "History cleared"
        /\ UNCHANGED <<selectedIndex, keybinds, lastIntent, mounted,
                       layoutMounted, listening>>

ClearHistoryFail ==
    \E t \in Pending :
        /\ Ready
        /\ t.op = "clearHistory"
        /\ tasks' = DelTask(tasks, t)
        /\ message' = "Failed to clear history"
        /\ UNCHANGED <<history, selectedIndex, keybinds, lastIntent, mounted,
                       layoutMounted, listening>>

\* ------------------------------------------------- configuration loading
\* +layout.svelte onMount: fetch the initial configuration
LayoutOnMount ==
    /\ mounted /\ ~layoutMounted
    /\ layoutMounted' = TRUE
    /\ tasks' = AddTask(tasks, Task("getConfig", 0, "layout"))
    /\ UNCHANGED <<message, history, selectedIndex, keybinds, lastIntent,
                   mounted,
                   listening>>

\* the 'config-reloaded' listener
ConfigReloaded ==
    /\ listening
    /\ NumTasks < MaxTasks
    /\ tasks' = AddTask(tasks, Task("getConfig", 0, "-"))
    /\ UNCHANGED <<message, history, selectedIndex, keybinds, lastIntent,
                   mounted,
                   layoutMounted, listening>>

\* a load that stores the fields one at a time, the first one only so far
ConfigOk_fieldByField(config) ==
    \E t \in Pending :
        /\ Ready
        /\ t.op = "getConfig"
        /\ keybinds' = [keybinds EXCEPT
                           !.historyUp = ConfigStore[config].historyUp]
        /\ listening' = (listening \/ t.by = "layout")
        /\ tasks' = DelTask(tasks, t)
        /\ UNCHANGED <<message, history, selectedIndex, lastIntent, mounted,
                       layoutMounted>>

\* get_claw_config answered: setKeybindsFromConfig(config); the layout's
\* initial fetch goes on to register the config-reloaded listener
ConfigOk(config) ==
    \E t \in Pending :
        /\ Ready
        /\ t.op = "getConfig"
        /\ keybinds' = ConfigStore[config]
        /\ listening' = (listening \/ t.by = "layout")
        /\ tasks' = DelTask(tasks, t)
        /\ UNCHANGED <<message, history, selectedIndex, lastIntent, mounted,
                       layoutMounted>>

\* get_claw_config rejected: the store keeps its value
ConfigFail ==
    \E t \in Pending :
        /\ Ready
        /\ t.op = "getConfig"
        /\ listening' = (listening \/ t.by = "layout")
        /\ tasks' = DelTask(tasks, t)
        /\ UNCHANGED <<message, history, selectedIndex, keybinds, lastIntent,
                       mounted,
                       layoutMounted>>

\* --------------------------------------------------------- specifications
\* the whole client
Next ==
    \/ HistoryOnMount /\ UNCHANGED env
    \/ LayoutOnMount /\ UNCHANGED env
    \/ HistoryUpdated /\ UNCHANGED env
    \/ RefreshClick /\ UNCHANGED env
    \/ \E i \in 0..(NumIds - 1) : Click(i) /\ UNCHANGED env
    \/ \E e \in Events : handleKeyDown(e) /\ UNCHANGED env
    \/ \E entries \in Snapshots : LoadHistoryOk(entries) /\ UNCHANGED env
    \/ LoadHistoryFail /\ UNCHANGED env
    \/ GetContentOk /\ UNCHANGED env
    \/ SetFromHistoryOk /\ UNCHANGED env
    \/ UseFromHistoryFail /\ UNCHANGED env
    \/ RemoveEntryOk /\ UNCHANGED env
    \/ RemoveEntryFail /\ UNCHANGED env
    \/ ClearHistoryOk /\ UNCHANGED env
    \/ ClearHistoryFail /\ UNCHANGED env
    \/ ConfigReloaded /\ UNCHANGED env
    \/ \E c \in Configs : ConfigOk(c) /\ UNCHANGED env
    \/ ConfigFail /\ UNCHANGED env

Spec == Init /\ [][Next]_vars

\* overlapping refreshes: the session from a moment at which two
\* get_clipboard_history requests are in flight (the refresh after a remove
\* and the one a history-updated notification started), under the default
\* bindings. The service fixes each answer when it handles the request, and
\* the answers come back in any order.
Reply(snap, stale) == [snap |-> snap, stale |-> stale]

\* the service takes a get_clipboard_history request and fixes its answer
Requested ==
    /\ \E snap \in Snapshots : replies' = Append(replies, Reply(snap, FALSE))
    /\ UNCHANGED <<newest, lastLoad>>

\* the list without its k-th element
Without(q, k) == SubSeq(q, 1, k - 1) \o SubSeq(q, k + 1, Len(q))

\* the answer to the k-th oldest request in flight reaches the client:
\* the answers to older requests, still under way, are out of date from now
Delivered(k) ==
    /\ replies' = Without([i \in 1..Len(replies) |->
                              IF i < k THEN Reply(replies[i].snap, TRUE)
                              ELSE replies[i]], k)
    /\ lastLoad' = (IF replies[k].stale THEN "stale" ELSE "fresh")
    /\ newest' = (IF replies[k].stale THEN newest ELSE replies[k].snap)

\* the k-th oldest request in flight is rejected
Failed(k) ==
    /\ replies' = Without(replies, k)
    /\ UNCHANGED <<newest, lastLoad>>

InitRefresh ==
    /\ history = SortedSeq(Ids)
    /\ selectedIndex \in -1..(Len(history) - 1)
    /\ keybinds = DefaultKeybinds
    /\ message = ""
    /\ tasks = AddTask(AddTask(EmptyBag, Task("getHistory", 0, "-")),
                       Task("getHistory", 0, "-"))
    /\ lastIntent = "none"
    /\ mounted = TRUE
    /\ layoutMounted = TRUE
    /\ listening = TRUE
    /\ replies \in [1..2 -> {Reply(snap, FALSE) : snap \in Snapshots}]
    /\ newest = history
    /\ lastLoad = "none"

NextRefresh ==
    \/ HistoryUpdated /\ Requested
    \/ RefreshClick /\ Requested
    \/ \E i \in 0..(NumIds - 1) : Click(i) /\ UNCHANGED env
    \/ \E e \in RefreshEvents : handleKeyDown(e) /\ UNCHANGED env
    \/ \E k \in 1..Len(replies) :
          LoadHistoryOk(replies[k].snap) /\ Delivered(k)
    \/ \E k \in 1..Len(replies) : LoadHistoryFail /\ Failed(k)
    \/ RemoveEntryOk /\ Requested
    \/ RemoveEntryFail /\ UNCHANGED env

SpecRefresh == InitRefresh /\ [][NextRefresh]_vars

\* the key engine: every configuration and every key event, over a list
\* that is loaded once and a service that rejects what is asked of it
InitKeys ==
    /\ history \in {<<>>, SortedSeq(Ids)}
    /\ selectedIndex \in -1..(Len(history) - 1)
    /\ keybinds = DefaultKeybinds
    /\ message = ""
    /\ tasks = EmptyBag
    /\ lastIntent = "none"
    /\ mounted = TRUE
    /\ layoutMounted = TRUE
    /\ listening = TRUE
    /\ replies = <<>>
    /\ newest = history
    /\ lastLoad = "none"

NextKeys ==
    \/ ConfigReloaded /\ UNCHANGED env
    \/ \E c \in KeyConfigs : ConfigOk(c) /\ UNCHANGED env
    \/ \E e \in KeyEvents : handleKeyDown(e) /\ UNCHANGED env
    \/ \E i \in 0..(NumIds - 1) : Click(i) /\ UNCHANGED env
    \/ UseFromHistoryFail /\ UNCHANGED env
    \/ RemoveEntryFail /\ UNCHANGED env
    \/ ClearHistoryFail /\ UNCHANGED env

SpecKeys == InitKeys /\ [][NextKeys]_vars

TypeOK ==
    /\ selectedIndex \in -2..(NumIds - 1)
    /\ lastIntent \in Intents
    /\ NumTasks <= Max(MaxTasks, 3)
    /\ history \in Snapshots
    /\ keybinds \in StoreValues

\* ------------------------------------------------------------ properties
InRange(sel, h) == 0 <= sel /\ sel < Len(h)

\* position (0-based) of entry id in list h; id occurs in h
IndexOf(h, id) == (CHOOSE i \in 1..Len(h) : h[i] = id) - 1
Occurs(h, id) == \E i \in 1..Len(h) : h[i] = id

Refresh == \E entries \in Snapshots : LoadHistoryOk(entries)

\* C1: the cursor is -1 or a valid index into the cached list; with an
\* empty list it is -1.
C1_CursorInRange ==
    selectedIndex = -1 \/ InRange(selectedIndex, history)

\* C2: a refresh that replaces the list while entry i is selected moves the
\* cursor to the new position of the selected entry's id, or, when the id is
\* gone, to min(i, n'-1), or to -1 when the new list is empty.
C2_ReResolveById ==
    [][(Refresh /\ InRange(selectedIndex, history)) =>
          LET id == history[selectedIndex + 1] IN
          IF Occurs(history', id) THEN selectedIndex' = IndexOf(history', id)
          ELSE IF history' = <<>> THEN selectedIndex' = -1
          ELSE selectedIndex' = Min(selectedIndex, Len(history') - 1)]_vars

\* C3: from the empty state (empty list, cursor -1) a refresh that brings a
\* non-empty list selects the first entry.
C3_AutoSelectFirst ==
    [][(Refresh /\ history = <<>> /\ selectedIndex = -1 /\ history' # <<>>)
          => selectedIndex' = 0]_vars

\* C4: the cursor is -1 exactly when the cached list is empty.
C4_EmptyIffNoSelection ==
    (selectedIndex = -1) <=> (Len(history) = 0)

\* C5: on a list of length n >= 1, moveUp takes the cursor i to max(i-1, 0)
\* and moveDown to min(i+1, n-1); from a cursor inside [0, n-1] the result
\* is inside [0, n-1] and at most one row away (no wrap-around).
C5_MoveClamped ==
    [][(Len(history) >= 1 /\ lastIntent' \in {"moveUp", "moveDown"}) =>
          \A e \in Events :
             handleKeyDown(e) =>
                LET n == Len(history)
                IN  /\ lastIntent' = "moveUp" =>
                           selectedIndex' = Max(selectedIndex - 1, 0)
                    /\ lastIntent' = "moveDown" =>
                           selectedIndex' = Min(selectedIndex + 1, n - 1)
                    /\ InRange(selectedIndex, history) =>
                           /\ InRange(selectedIndex', history)
                           /\ selectedIndex' - selectedIndex \in {-1, 0, 1}]_vars

\* the cursor was moved by a key against the top or the bottom of a full list
C5_Witness ==
    /\ lastIntent \in {"moveUp", "moveDown"}
    /\ Len(history) = NumIds
    /\ selectedIndex \in {0, NumIds - 1}

\* C6: neither a rejected service call nor the remove / removeAll key event
\* that issued it moves the cursor; the cursor waits for the list refresh.
C6_CursorWaitsForRefresh ==
    [][/\ (LoadHistoryFail \/ UseFromHistoryFail \/ RemoveEntryFail
              \/ ClearHistoryFail) => selectedIndex' = selectedIndex
       /\ \A e \in Events :
             (handleKeyDown(e)
                 /\ Branch(e, keybinds, selectedIndex) \in {"remove", "removeAll"})
             => selectedIndex' = selectedIndex]_vars

\* the first action, in the fixed order, whose binding matches the event
FirstMatch(event, kb) ==
    IF Matches(event, kb.historyUp) THEN "moveUp"
    ELSE IF Matches(event, kb.historyDown) THEN "moveDown"
    ELSE IF Matches(event, kb.useEntry) THEN "activate"
    ELSE IF Matches(event, kb.removeEntry) THEN "remove"
    ELSE IF Matches(event, kb.deleteAll) THEN "removeAll"
    ELSE "none"

\* C7: the action a key event resolves to is the first one, in the order
\* moveUp, moveDown, activate, remove, removeAll, whose binding matches the
\* event, whatever the cursor; a later action bound to the same key never
\* fires.
C7_FirstMatchWins ==
    \A e \in KeyEvents :
        Branch(e, keybinds, selectedIndex) # "none" =>
            Branch(e, keybinds, selectedIndex) = FirstMatch(e, keybinds)

Slots == {"historyUp", "historyDown", "useEntry", "removeEntry", "deleteAll"}

\* C8: a binding whose base key is a named key fires on the unmodified event
\* reporting that key: Enter bound to select (config Return / Enter or the
\* default) activates the selected entry, Delete bound to delete removes it,
\* ArrowUp / ArrowDown move the cursor.
C8_NamedKeysMatch ==
    [][\A key \in {sEnter, sDelete, sArrowUp, sArrowDown} :
          handleKeyDown(Plain(key)) =>
             /\ (key = sEnter /\ keybinds.useEntry = sEnter
                    /\ InRange(selectedIndex, history)
                    /\ sEnter \notin {keybinds.historyUp, keybinds.historyDown})
                   => lastIntent' = "activate"
             /\ (key = sDelete /\ keybinds.removeEntry = sDelete
                    /\ InRange(selectedIndex, history)
                    /\ sDelete \notin {keybinds.historyUp, keybinds.historyDown,
                                       keybinds.useEntry})
                   => lastIntent' = "remove"
             /\ (key = sArrowUp /\ keybinds.historyUp = sArrowUp)
                   => lastIntent' = "moveUp"
             /\ (key = sArrowDown /\ keybinds.historyDown = sArrowDown
                    /\ keybinds.historyUp # sArrowDown)
                   => lastIntent' = "moveDown"]_vars

\* the modifier names a binding string asks for: its '+'-separated tokens
\* before the last one, compared without regard to case
RequiredMods(keybind) ==
    LET toks == split(keybind, "+")
    IN  {toLowerCase(trim(toks[i])) : i \in 1..(Len(toks) - 1)}
Requires(keybind, mod) == mod \in RequiredMods(keybind)

sShift == <<"s","h","i","f","t">>
sCtrl  == <<"c","t","r","l">>
sAlt   == <<"a","l","t">>
sShiftX == <<"S","h","i","f","t","+","x">>
ShiftX == Event(<<"X">>, TRUE, FALSE, FALSE)

\* C9: a binding matches an event only if the event's Shift, Ctrl and Alt
\* flags each equal what the binding requires; Shift+x matches x / X with
\* Shift alone; ArrowUp matches only without modifiers; with delete = x and
\* delete-all = Shift+x, Shift+X resolves to removeAll and x never does.
C9_ExactModifiers ==
    /\ \A f \in Slots : \A e \in KeyEvents :
          Matches(e, keybinds[f]) =>
              /\ e.shiftKey = Requires(keybinds[f], sShift)
              /\ e.ctrlKey = Requires(keybinds[f], sCtrl)
              /\ e.altKey = Requires(keybinds[f], sAlt)
    /\ \A f \in Slots : \A e \in KeyEvents :
          /\ keybinds[f] = sShiftX =>
                (Matches(e, sShiftX) <=>
                    /\ e.key \in {<<"x">>, <<"X">>}
                    /\ e.shiftKey /\ ~e.ctrlKey /\ ~e.altKey)
          /\ keybinds[f] = sArrowUp =>
                (Matches(e, sArrowUp) <=>
                    /\ e.key = sArrowUp
                    /\ ~e.shiftKey /\ ~e.ctrlKey /\ ~e.altKey)
    /\ (keybinds.removeEntry = sX /\ keybinds.deleteAll = sShiftX
           /\ keybinds.historyUp = <<"k">> /\ keybinds.historyDown = <<"j">>)
          => /\ Branch(ShiftX, keybinds, selectedIndex) = "removeAll"
             /\ Branch(Plain(sX), keybinds, selectedIndex) =
                   (IF selectedIndex >= 0 THEN "remove" ELSE "none")

\* Shift+X was pressed under the README bindings and asked for the clear
C9_Witness ==
    /\ keybinds = KeybindsFromConfig(CfgReadme)
    /\ lastIntent = "removeAll"
    /\ Task("clearHistory", 0, "-") \in Pending

BlankStrings == {<<>>, <<" ">>, <<" ", " ">>, <<"\t">>, <<" ", "\t", " ">>}

IntentSlot ==
    [moveUp |-> "historyUp", moveDown |-> "historyDown",
     activate |-> "useEntry", remove |-> "removeEntry",
     removeAll |-> "deleteAll"]

\* C10: normalizeKey of an empty or whitespace-only string is the empty
\* (disabled) binding, which matches no event; an action whose binding is
\* disabled is the resolution of no key event.
C10_DisabledNeverFires ==
    /\ \A s \in BlankStrings : normalizeKey(s) = <<>>
    /\ \A e \in KeyEvents : ~matchKeybind(e, <<>>)
    /\ \A e \in KeyEvents :
          LET b == Branch(e, keybinds, selectedIndex)
          IN  b # "none" => keybinds[IntentSlot[b]] # <<>>

\* a key was handled while moveUp and removeAll were disabled by blank fields
C10_Witness ==
    /\ keybinds = KeybindsFromConfig(CfgBlank)
    /\ keybinds.historyUp = <<>> /\ keybinds.deleteAll = <<>>
    /\ lastIntent = "remove"
    /\ Task("removeEntry", 1, "-") \in Pending

\* the configuration object's field behind each slot of the store
FieldOf ==
    [historyUp |-> "up", historyDown |-> "down", useEntry |-> "select",
     removeEntry |-> "delete", deleteAll |-> "delete_all"]

\* the named key a raw string without '+' stands for when, trimmed and
\* lower-cased, it is one of the recognized aliases
AliasNames ==
    {<<"u","p">>, <<"d","o","w","n">>, <<"l","e","f","t">>,
     <<"r","i","g","h","t">>, <<"r","e","t","u","r","n">>,
     <<"e","n","t","e","r">>, <<"d","e","l","e","t","e">>}
IsAlias(raw) ==
    /\ raw # Undefined
    /\ ~includes(raw, "+")
    /\ toLowerCase(trim(raw)) \in AliasNames
NamedKey(raw) ==
    LET k == toLowerCase(trim(raw)) IN
    CASE k = <<"u","p">> -> sArrowUp
      [] k = <<"d","o","w","n">> -> sArrowDown
      [] k = <<"l","e","f","t">> -> sArrowLeft
      [] k = <<"r","i","g","h","t">> -> sArrowRight
      [] k = <<"d","e","l","e","t","e">> -> sDelete
      [] OTHER -> sEnter

\* C11: a configured key string without '+' that is an alias (up, down, left,
\* right, return, enter, delete, in any letter case, with any surrounding
\* blanks) is stored as its named key, and the stored binding matches the
\* unmodified event reporting that key.
C11_AliasesRewritten ==
    \A c \in KeyConfigs :
        keybinds = ConfigStore[c] =>
            \A f \in Slots :
                IsAlias(c[FieldOf[f]]) =>
                    /\ keybinds[f] = NamedKey(c[FieldOf[f]])
                    /\ Matches(Plain(NamedKey(c[FieldOf[f]])), keybinds[f])

\* C12: with the keybind set built from a configuration whose fields are
\* all missing, ArrowUp fires moveUp, ArrowDown moveDown, Enter activate and
\* x remove (each unmodified, with an entry selected), and no key event
\* fires removeAll.
C12_MissingFieldsDefault ==
    [][(keybinds = ConfigStore[CfgAbsent] /\ InRange(selectedIndex, history))
          => /\ handleKeyDown(Plain(sArrowUp)) => lastIntent' = "moveUp"
             /\ handleKeyDown(Plain(sArrowDown)) => lastIntent' = "moveDown"
             /\ handleKeyDown(Plain(sEnter)) => lastIntent' = "activate"
             /\ handleKeyDown(Plain(sX)) => lastIntent' = "remove"
             /\ \A e \in Events :
                   handleKeyDown(e) => lastIntent' # "removeAll"]_vars

\* C13: the keybind set is always the built-in defaults or the set built
\* from one single configuration, never a mix of two; only a successful
\* configuration load changes it, so a failed load (and every other step)
\* leaves the previous set in place.
C13_AtomicReplace ==
    /\ [](\/ keybinds = DefaultKeybinds
          \/ \E c \in Configs : keybinds = KeybindsFromConfig(c))
    /\ [][keybinds' # keybinds => \E c \in Configs : ConfigOk(c)]_vars

\* the bindings come from the README configuration, loaded over another
\* one, while a further reload is in flight
C13_Witness ==
    /\ keybinds = KeybindsFromConfig(CfgReadme)
    /\ listening
    /\ Task("getConfig", 0, "-") \in Pending
    /\ lastIntent = "activate"

\* C14: normalizing a stored (already normalized) binding again gives the
\* same binding: for every field s of a loaded configuration,
\* normalizeKey(normalizeKey(s)) = normalizeKey(s).
C14_NormalizeIdempotent ==
    \A c \in KeyConfigs :
        keybinds = ConfigStore[c] =>
            \A f \in Slots : normalizeKey(keybinds[f]) = keybinds[f]

\* C15: a remove key on the selected entry i of a list of length n puts the
\* cursor at min(i, n'-1) for n' = n - 1, or at -1 when n' = 0, and neither
\* the successful removal nor the refresh that installs the list of length
\* n' moves it from there.
C15_RemoveReclamps ==
    [][/\ \A e \in Events :
             (/\ InRange(selectedIndex, history)
              /\ Branch(e, keybinds, selectedIndex) = "remove"
              /\ lastIntent' = "remove"
              /\ handleKeyDown(e))
             => LET n1 == Len(history) - 1
                IN  selectedIndex' =
                        IF n1 = 0 THEN -1 ELSE Min(selectedIndex, n1 - 1)
       /\ (lastIntent = "remove"
              /\ (RemoveEntryOk
                     \/ (Refresh /\ Len(history') = Len(history) - 1)))
             => selectedIndex' = selectedIndex]_vars

\* an entry of a full list was removed, the removal succeeded and the list
\* one entry shorter is installed, the cursor on its last row
C15_Witness ==
    /\ lastIntent = "remove"
    /\ message = "Entry removed from history"
    /\ tasks = EmptyBag
    /\ Len(history) = NumIds - 1
    /\ selectedIndex = Len(history) - 1

\* C16: a successful clear leaves the cached list empty with the cursor at
\* -1, and from the empty state (empty list, cursor -1) only a refresh that
\* delivers a non-empty list leads out.
C16_ClearLeadsToEmpty ==
    [][/\ (ClearHistoryOk /\ history # <<>>)
             => (history' = <<>> /\ selectedIndex' = -1)
       /\ (history = <<>> /\ selectedIndex = -1 /\ message = "History cleared")
             => \/ history' = <<>> /\ selectedIndex' = -1
                \/ Refresh /\ history' # <<>>]_vars

\* the activate branch taken by key event e with an entry selected
ActivateStep(e) ==
    /\ InRange(selectedIndex, history)
    /\ Branch(e, keybinds, selectedIndex) = "activate"
    /\ lastIntent' = "activate"
    /\ handleKeyDown(e)

\* C17 (as claimed): an activate key with entry i selected issues the
\* set-clipboard-from-history request carrying the id of entry i and leaves
\* the cursor and the cached list as they are, as do the answers to the
\* request; the list changes only by the refresh that follows.
C17_ActivateIssuesSet ==
    [][/\ \A e \in Events :
             ActivateStep(e) =>
                /\ tasks' = AddTask(tasks,
                       Task("setFromHistory", history[selectedIndex + 1], "-"))
                /\ UNCHANGED <<selectedIndex, history>>
       /\ (GetContentOk \/ SetFromHistoryOk \/ UseFromHistoryFail)
             => UNCHANGED <<selectedIndex, history>>]_vars

\* C17 (amended): an activate key with entry i selected issues one request
\* carrying the id of entry i, the set-clipboard-from-history request or,
\* for an entry whose content is not loaded, the content fetch whose success
\* issues the set request for the same id; the key event and the answers to
\* these requests leave the cursor and the cached list as they are.
C17_ActivateRequestsById ==
    [][/\ \A e \in Events :
             ActivateStep(e) =>
                /\ \E op \in {"setFromHistory", "getContent"} :
                      tasks' = AddTask(tasks,
                                 Task(op, history[selectedIndex + 1], "-"))
                /\ UNCHANGED <<selectedIndex, history>>
       /\ GetContentOk =>
             \E id \in Ids :
                /\ Task("getContent", id, "-") \in Pending
                /\ tasks' = AddTask(DelTask(tasks, Task("getContent", id, "-")),
                                    Task("setFromHistory", id, "-"))
       /\ (GetContentOk \/ SetFromHistoryOk \/ UseFromHistoryFail)
             => UNCHANGED <<selectedIndex, history>>]_vars

\* the last entry of a full list was activated: the set request in flight
\* carries its id
C17_Witness ==
    /\ lastIntent = "activate"
    /\ Len(history) = NumIds
    /\ selectedIndex = NumIds - 1
    /\ Task("setFromHistory", NumIds, "-") \in Pending

\* the event matches none of the five bindings
NoMatch(e, kb) == \A f \in Slots : ~Matches(e, kb[f])

\* C18: a key event takes one branch of the dispatcher; an event that
\* matches none of the five bindings takes none and is not consumed, and a
\* key event that takes no branch leaves the cursor, the cached list and the
\* keybind set as they are and sends no request.
C18_UnmatchedEventIgnored ==
    /\ [](\A e \in KeyEvents :
             NoMatch(e, keybinds) =>
                 ~Consumed(Branch(e, keybinds, selectedIndex)))
    /\ [][(~Consumed(lastIntent') /\ \E e \in KeyEvents : handleKeyDown(e))
             => UNCHANGED <<selectedIndex, history, keybinds, tasks,
                            message>>]_vars

\* after a rejected remove, with an entry selected under the built-in
\* bindings, a key that matches nothing was handled
C18_Witness ==
    /\ lastIntent = "none"
    /\ message = "Failed to remove entry"
    /\ keybinds = DefaultKeybinds
    /\ InRange(selectedIndex, history)
    /\ tasks = EmptyBag

\* the base key of a binding string: its last '+'-separated token
BaseKeyOf(keybind) ==
    LET toks == split(keybind, "+") IN toLowerCase(trim(toks[Len(toks)]))

\* C19: every binding normalizeKey has produced from a configured string,
\* 'Shift+' and '+' included, is the empty (disabled) binding or has a
\* non-empty base key.
C19_BaseKeyNonEmpty ==
    \A c \in KeyConfigs :
        keybinds = ConfigStore[c] =>
            \A f \in Slots :
                keybinds[f] = <<>> \/ BaseKeyOf(keybinds[f]) # <<>>

\* the number of get_clipboard_history requests in flight
Refreshing(b) == CopiesIn(Task("getHistory", 0, "-"), b)

\* C20: every successful mutating operation (set-from-history, remove,
\* clear) and every history-updated notification issues a listHistory
\* request, and a successful listHistory response replaces the whole cached
\* list.
C20_RefreshAfterMutation ==
    [][/\ (SetFromHistoryOk \/ RemoveEntryOk \/ ClearHistoryOk
              \/ HistoryUpdated)
             => Refreshing(tasks') = Refreshing(tasks) + 1
       /\ \A entries \in Snapshots :
             LoadHistoryOk(entries) => history' = entries]_vars

\* the texts the catch blocks put in the message store
FailureTexts ==
    {"Failed to load history", "Failed to use from history",
     "Failed to remove entry", "Failed to clear history"}

\* C21: a rejected service call (list, content fetch / set, remove, clear)
\* leaves the cached list as it was, sets the message to a failure text and
\* issues no refresh.
C21_RejectionKeepsList ==
    [][(LoadHistoryFail \/ UseFromHistoryFail \/ RemoveEntryFail
           \/ ClearHistoryFail)
          => /\ history' = history
             /\ message' \in FailureTexts
             /\ Refreshing(tasks') <= Refreshing(tasks)]_vars

\* a refresh of a loaded list was rejected: the list is still there
C21_Witness ==
    /\ message = "Failed to load history"
    /\ Len(history) = NumIds
    /\ tasks = EmptyBag

\* the intent each slot of the store fires
IntentOf ==
    [historyUp |-> "moveUp", historyDown |-> "moveDown",
     useEntry |-> "activate", removeEntry |-> "remove",
     deleteAll |-> "removeAll"]

IsBlank(raw) == raw # Undefined /\ trim(raw) = <<>>

\* C22: after the keybind set is built from a configuration, an action
\* whose field is an empty or whitespace-only string is disabled: no key
\* event resolves to it, for each of the five fields.
C22_BlankFieldDisables ==
    \A c \in KeyConfigs :
        keybinds = ConfigStore[c] =>
            \A f \in Slots :
                IsBlank(c[FieldOf[f]]) =>
                    \A e \in KeyEvents :
                        Branch(e, keybinds, selectedIndex) # IntentOf[f]

\* the last '+'-separated token of a raw string, and the keys with a name
LastToken(raw) ==
    LET toks == split(raw, "+") IN trim(toks[Len(toks)])
NamedKeys == {sArrowUp, sArrowDown, sArrowLeft, sArrowRight, sEnter, sDelete}
IsCombo(raw) == raw # Undefined /\ includes(raw, "+")

\* C24: a configured string with '+' whose last token is a named key
\* (Ctrl+Enter, Shift+Delete, Shift+ArrowUp) is stored as a binding that
\* matches the event reporting that named key with exactly the modifiers the
\* string names.
C24_ComboKeepsNamedKey ==
    \A c \in KeyConfigs :
        keybinds = ConfigStore[c] =>
            \A f \in Slots :
                LET raw == c[FieldOf[f]] IN
                (IsCombo(raw) /\ LastToken(raw) \in NamedKeys) =>
                    Matches(Event(LastToken(raw), Requires(raw, sShift),
                                  Requires(raw, sCtrl), Requires(raw, sAlt)),
                            keybinds[f])

\* a single token that is neither an alias nor the name of a key
Unrecognized(raw) ==
    /\ raw # Undefined
    /\ ~includes(raw, "+")
    /\ trim(raw) # <<>>
    /\ toLowerCase(trim(raw)) \notin AliasNames
    /\ toLowerCase(trim(raw)) \notin {toLowerCase(k) : k \in NamedKeys}

\* C25: building the keybind set from string fields always yields a
\* complete set; each action's binding is determined by its own field (two
\* configurations that agree on a field give that action the same binding,
\* whatever the other fields hold), and an unrecognized single token is
\* stored as the literal lower-cased key.
C25_FieldsIndependent ==
    /\ DOMAIN keybinds = Slots
    /\ \A f \in Slots : keybinds[f] \in BindingStrings
    /\ \A c \in KeyConfigs :
          keybinds = ConfigStore[c] =>
              /\ \A d \in KeyConfigs : \A f \in Slots :
                    d[FieldOf[f]] = c[FieldOf[f]] =>
                        ConfigStore[d][f] = keybinds[f]
              /\ \A f \in Slots :
                    Unrecognized(c[FieldOf[f]]) =>
                        keybinds[f] = toLowerCase(trim(c[FieldOf[f]]))

\* the set with the malformed 'PageUp' field is installed and its other four
\* bindings are those of the configuration it differs from in that field
C25_Witness ==
    /\ keybinds = ConfigStore[CfgOneBad]
    /\ keybinds.historyDown = <<"p","a","g","e","u","p">>
    /\ \A f \in Slots \ {"historyDown"} :
          keybinds[f] = ConfigStore[CfgCombo][f]
    /\ lastIntent = "removeAll"

\* the raw string without its modifier tokens outside Shift, Ctrl and Alt
KnownMods == {sShift, sCtrl, sAlt}
HasUnknownMod(raw) ==
    IsCombo(raw) /\ RequiredMods(raw) \ KnownMods # {}

\* C26: modifier tokens other than Shift, Ctrl and Alt are ignored: the
\* binding stored for Foo+x matches exactly the events the binding stored
\* for x matches; Shift, Ctrl and Alt are accepted in any letter case: the
\* bindings stored for shift+x, SHIFT+x and Shift+x match the same events.
C26_UnknownModsIgnored ==
    keybinds = ConfigStore[CfgMods] =>
        /\ HasUnknownMod(CfgMods.up)
        /\ MatchSet[keybinds.historyUp] = MatchSet[keybinds.historyDown]
        /\ MatchSet[keybinds.historyUp] = {Plain(<<"x">>), Plain(<<"X">>)}
        /\ MatchSet[keybinds.useEntry] = MatchSet[keybinds.removeEntry]
        /\ MatchSet[keybinds.removeEntry] = MatchSet[keybinds.deleteAll]
        /\ MatchSet[keybinds.deleteAll] =
              {Event(<<"x">>, TRUE, FALSE, FALSE), ShiftX}

\* under the Foo+x / x / shift+x set a plain x moved the cursor up (Foo+x
\* comes first in the chain) and Shift+X had activated the selected entry
C26_Witness ==
    /\ keybinds = ConfigStore[CfgMods]
    /\ lastIntent = "moveUp"
    /\ message = "Failed to use from history"

\* the requests of the send kinds that are in b2 more often than in b1
NewRequests(b1, b2) ==
    {t \in BagToSet(b2) :
        /\ t.op \in {"getContent", "setFromHistory", "removeEntry"}
        /\ CopiesIn(t, b2) > CopiesIn(t, b1)}

\* C27: a content, setFromHistory or removeEntry request is sent only by an
\* activate or remove key handled with the cursor on an entry of the cached
\* list, and carries that entry's id (the setFromHistory that follows a
\* content fetch carries the fetched id); a key handled with cursor -1 or
\* with a cursor past the end of the list sends no request, and the activate
\* or remove past the end is reported by a failure message.
C27_RequestsCarryCursorEntry ==
    [][/\ \A t \in NewRequests(tasks, tasks') :
             \/ /\ InRange(selectedIndex, history)
                /\ t.id = history[selectedIndex + 1]
                /\ lastIntent' = (IF t.op = "removeEntry" THEN "remove"
                                  ELSE "activate")
                /\ \E e \in Events : handleKeyDown(e)
             \/ /\ t.op = "setFromHistory"
                /\ GetContentOk
                /\ CopiesIn(Task("getContent", t.id, "-"), tasks) >
                      CopiesIn(Task("getContent", t.id, "-"), tasks')
       /\ (~InRange(selectedIndex, history)
             /\ \E e \in Events : handleKeyDown(e))
            => /\ NewRequests(tasks, tasks') = {}
               /\ lastIntent' \in {"activate", "remove"} =>
                     message' \in FailureTexts /\ tasks' = tasks]_vars

\* the cursor is past the end of a list that became shorter and the last
\* key was the activate key: nothing is in flight, the failure is on display
C27_Witness ==
    /\ lastIntent = "activate"
    /\ message = "Failed to use from history"
    /\ history # <<>>
    /\ selectedIndex >= Len(history)
    /\ tasks = EmptyBag

\* C23: with two refreshes in flight the answers are applied in the order
\* they arrive, whatever order they were asked in: every answer that
\* arrives replaces the cached list, the answer to an earlier request
\* included when the answer to a later one is already installed, so the
\* cached list can be left at the older list.
C23_StaleAnswerApplied ==
    /\ [](Len(replies) = Refreshing(tasks))
    /\ [](lastLoad = "fresh" => history = newest)
    /\ [][\A k \in 1..Len(replies) :
             (LoadHistoryOk(replies[k].snap) /\ Delivered(k))
                => history' = replies[k].snap]_vars

\* the answer to the earlier request was applied over the answer to the
\* later one and nothing is in flight: the cached list is the older list and
\* differs from the newer one
C23_Witness ==
    /\ lastLoad = "stale"
    /\ history # newest
    /\ replies = <<>>
    /\ tasks = EmptyBag

\* every start state of the key-engine specification is a state the whole
\* client reaches
KeysStartUnreached ==
    ~(/\ Ready /\ listening /\ tasks = EmptyBag /\ message = ""
      /\ lastIntent = "none" /\ keybinds = DefaultKeybinds
      /\ history = SortedSeq(Ids) /\ selectedIndex = Len(history) - 1)

====
